---- MODULE Spec2Model ----
(***************************************************************************)
(* Model of the stereo matcher of visgeom (EnhancedStereo, EnhancedEpipolar):*)
(* the cost volume, the four dynamic-programming sweeps, the fusion into a  *)
(* disparity map, triangulation and distance, and the epipolar curve table. *)
(*                                                                         *)
(* Buffers are modelled as the code addresses them: one flat array per     *)
(* matrix, entry (v, u, d) at index (v*dispWidth + u)*dispMax + d, and the  *)
(* pointers of the code are indices into that array.  A read outside the   *)
(* array yields an arbitrary word (oob).                                   *)
(***************************************************************************)
EXTENDS Integers, Sequences, FiniteSets, TLC

\* ------------------------------------------------------------- bounds
MaxW == 2
MaxH == 2
MaxDisp == 2
MaxLambda == 1
\* dispMax of the single computeDynamicStep calls of SpecStep
MaxStepDisp == 3
\* one-row grid wide enough for a fused score to pass the initial bestCost
BigW == 393

\* ---------------------------------------------------------- constants
\* initial value of bestCost in reconstructDisparity
BestCostInit == 100000
\* number of values of the uint8_t that stores a disparity
ByteRange == 256

\* values a cost byte takes in the model
CostVals == {0, 2, 255}
\* words an uninitialised buffer is filled with / a read outside a buffer yields
OobVals == {-7, 300}

Dirs == {"Left", "Right", "Top", "Bottom"}

Min2(a, b) == IF a <= b THEN a ELSE b

RECURSIVE MinOver(_, _, _)
\* min of f[lo..hi], lo <= hi
MinOver(f, lo, hi) == IF lo = hi THEN f[lo] ELSE Min2(f[lo], MinOver(f, lo + 1, hi))

VARIABLES
    params,         \* dispWidth, dispHeight, dispMax, lambdaStep, lambdaJump
    costIn,         \* what the cost kernel computes for the current image pair
    errorBuffer,    \* flat cost volume
    tableau,        \* tableau.Left / .Right / .Top / .Bottom, flat
    smallDisparity, \* disparity per pixel (uint8)
    pc,             \* phase of the match call
    pos,            \* per sweep: number of pixels processed; "cost"/"fuse": pixel cursor
    filled,         \* history: pixels each buffer has been written at in this call
    fused,          \* history: pixels the fusion has read
    lateWrite,      \* history: a sweep wrote a pixel the fusion had read already
    lastStep,       \* history: the last computeDynamicStep call (bases, reads)
    prev,           \* history: tableaus and lambdaJump of the previous call
    dist,           \* a computeDistance / triangulate call: inputs, locals, result
    epi,            \* the epipolar curve table and the last index lookup
    kern,           \* a cost kernel evaluated at one pixel: inputs and result
    depth           \* a distance grid being produced: its shape and the cell written

dpVars == <<params, costIn, errorBuffer, tableau, smallDisparity, pc, pos,
            filled, fused, lateWrite, lastStep, prev>>

others == <<dist, epi, kern, depth>>

vars == <<dpVars, others>>

\* the parts of the state a specification does not exercise
DistIdle == [on |-> FALSE]
EpiIdle == [on |-> FALSE]
KernIdle == [on |-> FALSE]
DepthIdle == [on |-> FALSE]
Idle == dist = DistIdle /\ epi = EpiIdle /\ kern = KernIdle /\ depth = DepthIdle

\* ------------------------------------------------------------ geometry
W == params.dispWidth
H == params.dispHeight
D == params.dispMax
NPix == W * H
NEnt == W * H * D

getLinearIndex(u, v) == v * W + u

\* k-th pixel a sweep processes, as (v, u)
SweepV(dir, k) ==
    CASE dir = "Left"   -> k \div W
      [] dir = "Right"  -> k \div W
      [] dir = "Top"    -> k % H
      [] dir = "Bottom" -> H - 1 - (k % H)

SweepU(dir, k) ==
    CASE dir = "Left"   -> k % W
      [] dir = "Right"  -> W - 1 - (k % W)
      [] dir = "Top"    -> k \div H
      [] dir = "Bottom" -> k \div H

\* the pixel is the first of its scan: it is initialised by copy
SweepFirst(dir, k) ==
    CASE dir = "Left"   -> k % W = 0
      [] dir = "Right"  -> k % W = 0
      [] dir = "Top"    -> k % H = 0
      [] dir = "Bottom" -> k % H = 0

\* linear index of the pixel whose tableau slice is passed as inCost
SweepPred(dir, p) ==
    CASE dir = "Left"   -> p - 1
      [] dir = "Right"  -> p + 1
      [] dir = "Top"    -> p - W
      [] dir = "Bottom" -> p + W

\* ------------------------------------------------- computeDynamicStep
\* *(base + i) of an int buffer T
Rd(T, k, oob) == IF k \in DOMAIN T THEN T[k] ELSE oob

RECURSIVE MinNb(_, _, _, _, _, _, _)
\* val = min(val, inCost[nb[j]] + lambdaStep) for the neighbours nb[j..], in order
MinNb(T, inB, outK, nb, j, ls, oob) ==
    IF j > Len(nb) THEN T
    ELSE MinNb([T EXCEPT ![outK] = Min2(T[outK], Rd(T, inB + nb[j], oob) + ls)],
               inB, outK, nb, j + 1, ls, oob)

\* one element: val = inCost[i]; the neighbour terms; the jump term; val += error[i]
StepElem(T, err, inB, errB, outB, i, nb, best, ls, lj, oob) ==
    LET T1 == [T EXCEPT ![outB + i] = Rd(T, inB + i, oob)]
        T2 == MinNb(T1, inB, outB + i, nb, 1, ls, oob)
        T3 == [T2 EXCEPT ![outB + i] = Min2(T2[outB + i], best + lj)]
    IN  [T3 EXCEPT ![outB + i] = T3[outB + i] + err[errB + i]]

RECURSIVE StepLoop(_, _, _, _, _, _, _, _, _, _, _)
\* for (i = 1; i < dispMax - 1; i++)
StepLoop(T, err, inB, errB, outB, i, n, best, ls, lj, oob) ==
    IF i >= n - 1 THEN T
    ELSE StepLoop(StepElem(T, err, inB, errB, outB, i, <<i + 1, i - 1>>, best, ls, lj, oob),
                  err, inB, errB, outB, i + 1, n, best, ls, lj, oob)

\* the tableau after computeDynamicStep(T + inB, err + errB, T + outB)
computeDynamicStep(T, err, inB, errB, outB, n, ls, lj, oob) ==
    LET best == MinOver([i \in 0..(n - 1) |-> Rd(T, inB + i, oob)], 0, n - 1)
        T0 == StepElem(T, err, inB, errB, outB, 0, <<1>>, best, ls, lj, oob)
        T1 == StepLoop(T0, err, inB, errB, outB, 1, n, best, ls, lj, oob)
    IN  StepElem(T1, err, inB, errB, outB, n - 1, <<n - 2>>, best, ls, lj, oob)

\* offsets from inCost that computeDynamicStep reads
StepReadOffsets(n) ==
    (0..(n - 1)) \cup {1} \cup {n - 2}
    \cup UNION {{i + 1, i - 1} : i \in 1..(n - 2)}

\* offsets from outCost that computeDynamicStep writes
StepWriteOffsets(n) == {0} \cup (1..(n - 2)) \cup {n - 1}

\* ------------------------------------------------------------- buffers
\* createBuffer: matrices of the working-grid size, not initialised
createBuffer(w, h, n, fill) ==
    [i \in 0..(w * h * n - 1) |-> fill]

NoStep == [dir |-> "none", inB |-> 0, outB |-> 0, reads |-> {}, writes |-> {}]
NoPrev == [valid |-> FALSE, lambdaJump |-> 0, tableau |-> <<>>]

\* cost volumes: a background value with at most one entry that differs
CostVolumes(w, h, n) ==
    {[i \in 0..(w * h * n - 1) |-> IF i = s THEN sp ELSE bg] :
        s \in (-1)..(w * h * n - 1), bg \in CostVals, sp \in CostVals}

Fresh(w, h, n, ls, lj, cost, fill) ==
    /\ params = [dispWidth |-> w, dispHeight |-> h, dispMax |-> n,
                 lambdaStep |-> ls, lambdaJump |-> lj]
    /\ costIn = cost
    /\ errorBuffer = createBuffer(w, h, n, fill % ByteRange)
    /\ tableau = [dir \in Dirs |-> createBuffer(w, h, n, fill)]
    /\ smallDisparity = createBuffer(w, h, 1, fill % ByteRange)
    /\ pc = "cost"
    /\ pos = [x \in Dirs \cup {"cost", "fuse"} |-> 0]
    /\ filled = [x \in Dirs \cup {"cost"} |-> {}]
    /\ fused = {}
    /\ lateWrite = FALSE
    /\ lastStep = NoStep
    /\ prev = NoPrev

Init ==
    \E w \in 1..MaxW, h \in 1..MaxH, n \in 1..MaxDisp,
       ls \in 0..MaxLambda, lj \in 0..MaxLambda, fill \in OobVals :
        \E cost \in CostVolumes(w, h, n) :
            Fresh(w, h, n, ls, lj, cost, fill) /\ Idle

\* ---------------------------------------------------------- comuteStereo
\* faulty variant: the fusion starts when three of the four sweeps are complete
NextPhaseFuseEarly(ph) ==
    CASE ph = "cost"   -> "Left"
      [] ph = "Left"   -> "Right"
      [] ph = "Right"  -> "Top"
      [] ph = "Top"    -> "fuse"
      [] ph = "fuse"   -> "Bottom"
      [] OTHER         -> "done"

\* the order of the calls in comuteStereo and computeDynamicProgramming
NextPhase(ph) ==
    CASE ph = "cost"   -> "Left"
      [] ph = "Left"   -> "Right"
      [] ph = "Right"  -> "Top"
      [] ph = "Top"    -> "Bottom"
      [] ph = "Bottom" -> "fuse"
      [] ph = "fuse"   -> "done"
      [] OTHER         -> "done"

Advance(ph, k) == IF k + 1 >= NPix THEN NextPhase(ph) ELSE ph

\* the cost kernel's loop body for one pixel: writes the dispMax bytes of the pixel
CostStep ==
    /\ pc = "cost"
    /\ LET p == pos["cost"] IN
        /\ errorBuffer' = [i \in DOMAIN errorBuffer |->
                              IF i \div D = p THEN costIn[i] ELSE errorBuffer[i]]
        /\ filled' = [filled EXCEPT !["cost"] = @ \cup {p}]
        /\ pos' = [pos EXCEPT !["cost"] = p + 1]
        /\ pc' = Advance("cost", p)
    /\ UNCHANGED <<params, costIn, tableau, smallDisparity, fused, lateWrite,
                   lastStep, prev, others>>

\* faulty variant: the first pixel of a scan is computed like the others
SweepApplyNoInit(T, err, dir, k, oob) ==
    LET p == getLinearIndex(SweepU(dir, k), SweepV(dir, k))
        q == SweepPred(dir, p)
    IN  computeDynamicStep(T, err, q * D, p * D, p * D, D,
                           params.lambdaStep, params.lambdaJump, oob)

\* one pixel of a sweep of computeDynamicProgramming: the copy that initialises
\* the first pixel of a scan, or a computeDynamicStep from the previous pixel
SweepApply(T, err, dir, k, oob) ==
    LET p == getLinearIndex(SweepU(dir, k), SweepV(dir, k))
        q == SweepPred(dir, p)
    IN  IF SweepFirst(dir, k)
        THEN [i \in DOMAIN T |-> IF i \div D = p THEN err[i] ELSE T[i]]
        ELSE computeDynamicStep(T, err, q * D, p * D, p * D, D,
                                params.lambdaStep, params.lambdaJump, oob)

SweepBody(dir, k, oob) ==
    LET p == getLinearIndex(SweepU(dir, k), SweepV(dir, k))
        q == SweepPred(dir, p)
    IN  /\ tableau' = [tableau EXCEPT ![dir] = SweepApply(@, errorBuffer, dir, k, oob)]
        /\ lastStep' = IF SweepFirst(dir, k) THEN NoStep
                       ELSE [dir |-> dir, inB |-> q * D, outB |-> p * D,
                             reads |-> {q * D + o : o \in StepReadOffsets(D)},
                             writes |-> {p * D + o : o \in StepWriteOffsets(D)}]
        /\ filled' = [filled EXCEPT ![dir] = @ \cup {p}]
        /\ lateWrite' = (lateWrite \/ p \in fused)
        /\ pos' = [pos EXCEPT ![dir] = k + 1]

\* the sweeps in the order of the code: left, right, top, bottom
SweepStep ==
    /\ pc \in Dirs
    /\ \E oob \in OobVals : SweepBody(pc, pos[pc], oob)
    /\ pc' = Advance(pc, pos[pc])
    /\ UNCHANGED <<params, costIn, errorBuffer, smallDisparity, fused, prev, others>>

\* ------------------------------------------------- reconstructDisparity
score(p, d) ==
    tableau["Left"][p * D + d] + tableau["Right"][p * D + d]
    + tableau["Top"][p * D + d] + tableau["Bottom"][p * D + d]
    - 2 * errorBuffer[p * D + d]

RECURSIVE bestDispFrom(_, _, _, _)
\* the scan of the candidates d, d+1, ..: (bestCost, bestDisp) so far
bestDispFrom(p, d, bestCost, bestDisp) ==
    IF d >= D THEN bestDisp
    ELSE IF bestCost > score(p, d)
         THEN bestDispFrom(p, d + 1, score(p, d), d % ByteRange)
         ELSE bestDispFrom(p, d + 1, bestCost, bestDisp)

reconstructDisparity(p) == bestDispFrom(p, 0, BestCostInit, 0)

FuseStep ==
    /\ pc = "fuse"
    /\ LET p == pos["fuse"] IN
        /\ smallDisparity' = [smallDisparity EXCEPT ![p] = reconstructDisparity(p)]
        /\ fused' = fused \cup {p}
        /\ pos' = [pos EXCEPT !["fuse"] = p + 1]
        /\ pc' = Advance("fuse", p)
    /\ UNCHANGED <<params, costIn, errorBuffer, tableau, filled, lateWrite,
                   lastStep, prev, others>>

\* the same image pair matched again by a matcher built with a lambdaJump that is
\* not smaller; the tableaus of the finished call are kept for comparison
NewCall ==
    /\ pc = "done"
    /\ ~prev.valid
    /\ \E lj \in params.lambdaJump..MaxLambda, fill \in OobVals :
        /\ params' = [params EXCEPT !.lambdaJump = lj]
        /\ errorBuffer' = createBuffer(W, H, D, fill % ByteRange)
        /\ tableau' = [dir \in Dirs |-> createBuffer(W, H, D, fill)]
        /\ smallDisparity' = createBuffer(W, H, 1, fill % ByteRange)
    /\ prev' = [valid |-> TRUE, lambdaJump |-> params.lambdaJump, tableau |-> tableau]
    /\ pc' = "cost"
    /\ pos' = [x \in DOMAIN pos |-> 0]
    /\ filled' = [x \in DOMAIN filled |-> {}]
    /\ fused' = {}
    /\ lateWrite' = FALSE
    /\ lastStep' = NoStep
    /\ UNCHANGED <<costIn, others>>

Next == CostStep \/ SweepStep \/ FuseStep

Spec == Init /\ [][Next]_vars

\* two calls on the same images, the second with a lambdaJump that is not smaller
NextMono == CostStep \/ SweepStep \/ FuseStep \/ NewCall

SpecMono == Init /\ [][NextMono]_vars

\* the four sweeps run as independent tasks: any sweep that has pixels left steps
ParSweepStep ==
    /\ pc \in Dirs
    /\ \E dir \in Dirs :
        /\ pos[dir] < NPix
        /\ \E oob \in OobVals : SweepBody(dir, pos[dir], oob)
    /\ pc' = IF \A dir \in Dirs : pos'[dir] = NPix THEN "fuse" ELSE pc
    /\ UNCHANGED <<params, costIn, errorBuffer, smallDisparity, fused, prev, others>>

NextPar == CostStep \/ ParSweepStep \/ FuseStep

InitPar ==
    \E w \in 1..MaxW, h \in 1..MaxH, n \in 1..MaxDisp,
       fill \in OobVals :
        \E cost \in CostVolumes(w, h, n) :
            Fresh(w, h, n, MaxLambda, 0, cost, fill) /\ Idle

SpecPar == InitPar /\ [][NextPar]_vars

\* a single computeDynamicStep: the second pixel of a left scan of a one-row,
\* two-pixel grid, whose first pixel holds the copy of an arbitrary cost row
InitStep ==
    \E n \in 1..MaxStepDisp, ls \in 0..MaxLambda, lj \in 0..MaxLambda, fill \in OobVals :
        \E cost \in [0..(2 * n - 1) -> CostVals] :
            /\ params = [dispWidth |-> 2, dispHeight |-> 1, dispMax |-> n,
                         lambdaStep |-> ls, lambdaJump |-> lj]
            /\ costIn = cost
            /\ errorBuffer = cost
            /\ tableau = [dir \in Dirs |->
                            IF dir = "Left"
                            THEN [i \in 0..(2 * n - 1) |-> IF i < n THEN cost[i] ELSE fill]
                            ELSE createBuffer(2, 1, n, fill)]
            /\ smallDisparity = createBuffer(2, 1, 1, fill % ByteRange)
            /\ pc = "Left"
            /\ pos = [x \in Dirs \cup {"cost", "fuse"} |->
                        IF x = "cost" THEN 2 ELSE IF x = "Left" THEN 1 ELSE 0]
            /\ filled = [x \in Dirs \cup {"cost"} |->
                        IF x = "cost" THEN {0, 1} ELSE IF x = "Left" THEN {0} ELSE {}]
            /\ fused = {}
            /\ lateWrite = FALSE
            /\ lastStep = NoStep
            /\ prev = NoPrev
            /\ Idle

DynStep == pc = "Left" /\ SweepStep

NextStep == DynStep

SpecStep == InitStep /\ [][NextStep]_vars

\* a one-row grid of BigW pixels in which every cost is one of the two largest bytes
BigCostVals == {254, 255}

InitBig ==
    \E c0 \in BigCostVals, c1 \in BigCostVals, ls \in 0..MaxLambda, fill \in OobVals :
        Fresh(BigW, 1, 2, ls, ls, [i \in 0..(2 * BigW - 1) |-> IF i % 2 = 0 THEN c0 ELSE c1], fill)
        /\ Idle

SpecBig == InitBig /\ [][Next]_vars

\* ------------------------------------------- triangulate, computeDistance
\* Vectors have integer components; a point computed by a division is kept as
\* the fraction num/den, a distance as the fraction sqNum/sqDen of its square.
MaxCoord == 1
MaxDisparity == 2

Dot(a, b) == a[1] * b[1] + a[2] * b[2] + a[3] * b[3]
VAdd(a, b) == <<a[1] + b[1], a[2] + b[2], a[3] + b[3]>>
VScale(a, k) == <<a[1] * k, a[2] * k, a[3] * k>>
Abs(x) == IF x < 0 THEN -x ELSE x

ZeroVec == <<0, 0, 0>>
ZeroPoint == [num |-> ZeroVec, den |-> 1]
\* the value of an uninitialised Vector3d
JunkPoint == [num |-> <<9, 9, 9>>, den |-> 1]

\* rays a camera reconstructs: (x, y, 1)
Rays == {<<x, y, 1>> : x \in (-MaxCoord)..MaxCoord, y \in (-MaxCoord)..MaxCoord}
\* Transform12.trans()
Translations == {<<1, 0, 0>>, <<0, 1, 0>>, <<1, 1, 1>>, <<-1, 0, 2>>}
\* Transform12.rotMat(): the identity, a quarter turn about the optical axis
Rotations == {"I", "Z90"}
rotMat(R, v) == IF R = "I" THEN v ELSE <<-v[2], v[1], v[3]>>

\* abs(delta) < 1e-10, for a delta that is an integer
DeltaTooSmall(delta) == Abs(delta) < 1

\* faulty variant: the sign of the second term of l2 is wrong
triangulateBadL2(ok1, v1, ok2, v2in, R, t) ==
    IF ~ok1 \/ ~ok2
    THEN [ret |-> FALSE, X |-> ZeroPoint, delta |-> 0, l1 |-> 0, l2 |-> 0, v2 |-> v2in]
    ELSE LET v2 == rotMat(R, v2in)
             v1v2 == Dot(v1, v2)
             v1v1 == Dot(v1, v1)
             v2v2 == Dot(v2, v2)
             tv1 == Dot(t, v1)
             tv2 == Dot(t, v2)
             delta == -v1v1 * v2v2 + v1v2 * v1v2
         IN  IF DeltaTooSmall(delta)
             THEN [ret |-> FALSE, X |-> ZeroPoint, delta |-> delta, l1 |-> 0, l2 |-> 0, v2 |-> v2]
             ELSE LET l1 == -tv1 * v2v2 + tv2 * v1v2
                      l2 == tv2 * v1v1 + tv1 * v1v2
                  IN  [ret |-> TRUE,
                       X |-> [num |-> VAdd(VAdd(VScale(v1, l1), VScale(t, delta)), VScale(v2, l2)),
                              den |-> 2 * delta],
                       delta |-> delta, l1 |-> l1, l2 |-> l2, v2 |-> v2]

\* triangulate: (ok1, v1) and (ok2, v2in) are what cam1.reconstructPoint and
\* cam2.reconstructPoint give for the two pixels.  l1 and l2 are the numerators of
\* the code's l1 and l2, whose denominator is delta.
triangulate(ok1, v1, ok2, v2in, R, t) ==
    IF ~ok1 \/ ~ok2
    THEN [ret |-> FALSE, X |-> ZeroPoint, delta |-> 0, l1 |-> 0, l2 |-> 0, v2 |-> v2in]
    ELSE LET v2 == rotMat(R, v2in)
             v1v2 == Dot(v1, v2)
             v1v1 == Dot(v1, v1)
             v2v2 == Dot(v2, v2)
             tv1 == Dot(t, v1)
             tv2 == Dot(t, v2)
             delta == -v1v1 * v2v2 + v1v2 * v1v2
         IN  IF DeltaTooSmall(delta)
             THEN [ret |-> FALSE, X |-> ZeroPoint, delta |-> delta, l1 |-> 0, l2 |-> 0, v2 |-> v2]
             ELSE LET l1 == -tv1 * v2v2 + tv2 * v1v2
                      l2 == tv2 * v1v1 - tv1 * v1v2
                  IN  [ret |-> TRUE,
                       X |-> [num |-> VAdd(VAdd(VScale(v1, l1), VScale(t, delta)), VScale(v2, l2)),
                              den |-> 2 * delta],
                       delta |-> delta, l1 |-> l1, l2 |-> l2, v2 |-> v2]

\* X.norm(), as the fraction of its square
Norm(X) == [sqNum |-> Dot(X.num, X.num), sqDen |-> X.den * X.den]
\* a double that is not a norm
Const(x) == [sqNum |-> x * x, sqDen |-> 1]

\* faulty variant: only a negative disparity yields the sentinel
computeDistanceStrict(disparity, maxDistance, ok1, v1, ok2, v2in, R, t, X0) ==
    IF disparity < 0
    THEN [ret |-> Const(maxDistance), steps |-> <<>>, tri |-> <<>>, X |-> X0]
    ELSE LET r == triangulate(ok1, v1, ok2, v2in, R, t)
         IN  [ret |-> IF r.ret THEN Norm(r.X) ELSE Const(0),
              steps |-> <<disparity>>, tri |-> <<r>>, X |-> r.X]

\* computeDistance(u, v) for a pixel whose stored disparity is `disparity`;
\* (ok2, v2in) is cam2's reconstruction of the pixel the rasterizer reaches.
\* steps: the arguments of the raster.steps calls; tri: the results of the
\* triangulate calls; X: the local X.
computeDistance(disparity, maxDistance, ok1, v1, ok2, v2in, R, t, X0) ==
    IF disparity <= 0
    THEN [ret |-> Const(maxDistance), steps |-> <<>>, tri |-> <<>>, X |-> X0]
    ELSE LET r == triangulate(ok1, v1, ok2, v2in, R, t)
         IN  [ret |-> IF r.ret THEN Norm(r.X) ELSE Const(0),
              steps |-> <<disparity>>, tri |-> <<r>>, X |-> r.X]

InitDist ==
    /\ Fresh(1, 1, 1, 0, 0, createBuffer(1, 1, 1, 0), 0)
    /\ epi = EpiIdle /\ kern = KernIdle /\ depth = DepthIdle
    /\ \E ok1 \in BOOLEAN, ok2 \in BOOLEAN, v1 \in Rays, v2 \in Rays,
          R \in Rotations, t \in Translations, d \in 0..MaxDisparity :
        dist = [on |-> TRUE, called |-> "none", ok1 |-> ok1, v1 |-> v1, ok2 |-> ok2,
                v2in |-> v2, R |-> R, t |-> t, disparity |-> d, maxDistance |-> 100,
                X |-> JunkPoint]

\* triangulate(x1, y1, x2, y2, X) called with an X that holds an earlier value
CallTriangulate ==
    /\ dist.on /\ dist.called = "none"
    /\ LET r == triangulate(dist.ok1, dist.v1, dist.ok2, dist.v2in, dist.R, dist.t)
       IN  dist' = [on |-> TRUE, called |-> "triangulate", ok1 |-> dist.ok1,
                    v1 |-> dist.v1, ok2 |-> dist.ok2, v2in |-> dist.v2in, R |-> dist.R,
                    t |-> dist.t, disparity |-> dist.disparity,
                    maxDistance |-> dist.maxDistance, X |-> r.X, out |-> r]
    /\ UNCHANGED <<dpVars, epi, kern, depth>>

CallComputeDistance ==
    /\ dist.on /\ dist.called = "none"
    /\ LET r == computeDistance(dist.disparity, dist.maxDistance, dist.ok1, dist.v1,
                                dist.ok2, dist.v2in, dist.R, dist.t, dist.X)
       IN  dist' = [on |-> TRUE, called |-> "computeDistance", ok1 |-> dist.ok1,
                    v1 |-> dist.v1, ok2 |-> dist.ok2, v2in |-> dist.v2in, R |-> dist.R,
                    t |-> dist.t, disparity |-> dist.disparity,
                    maxDistance |-> dist.maxDistance, X |-> r.X, out |-> r]
    /\ UNCHANGED <<dpVars, epi, kern, depth>>

NextDist == CallTriangulate \/ CallComputeDistance

SpecDist == InitDist /\ [][NextDist]_vars

\* ------------------------------------------------------ EnhancedEpipolar
\* The table of epipolar curves and the lookup of a ray in it.  Vectors have
\* integer components over a common denominator; quotients are exact fractions.
MaxHalfSteps == 4
MaxRay == 3
\* the rounding error of a double dot product, in units of 1 / (PertScale * nSteps)
PertScale == 1000
\* 1 / 1e-4, the threshold of index
EpsInv == 10000
\* denominators of the query rays: components of order 1 and of order 1e-4
RayDens == {1, 2 * EpsInv}

Cross(a, b) == <<a[2] * b[3] - a[3] * b[2], a[3] * b[1] - a[1] * b[3], a[1] * b[2] - a[2] * b[1]>>

\* Transform12.trans() of the models: unit vectors along an axis
EpiTranslations == {<<0, 0, -1>>, <<-1, 0, 0>>, <<0, 1, 0>>}

\* the basis the constructor derives from the translation, a unit axis vector
zBaseOf(t) == VScale(t, -1)
xBaseOf(t) ==
    LET z == zBaseOf(t)
        x0 == IF z[3] * z[3] > z[1] * z[1] + z[2] * z[2] THEN <<1, 0, 0>> ELSE <<0, 0, 1>>
    IN  VAdd(x0, VScale(z, -Dot(z, x0)))
yBaseOf(t) == Cross(zBaseOf(t), xBaseOf(t))

\* nSteps times the direction X the constructor's loop takes for idx
Direction(N, t, idx) ==
    IF idx < N \div 2
    THEN VAdd(VScale(xBaseOf(t), N), VScale(yBaseOf(t), 4 * idx - N))
    ELSE VAdd(VScale(xBaseOf(t), 4 * (-idx + N \div 2) + N), VScale(yBaseOf(t), N))

\* the curve stored for idx: determined by the plane X x t21n (R21 the identity)
Curve(N, t, idx) == [plane |-> Cross(Direction(N, t, idx), zBaseOf(t))]

\* faulty variant: no wrap entry is appended
EpipolarNoSentinel(N, t) == [k \in 1..N |-> Curve(N, t, k - 1)]

\* faulty variant: the wrap entry duplicates the last entry
EpipolarBackSentinel(N, t) ==
    LET body == [k \in 1..N |-> Curve(N, t, k - 1)]
    IN  Append(body, body[N])

\* epipolarVec after the constructor; epipolarVec[idx] of the code is element idx + 1
EnhancedEpipolar(N, t) ==
    LET body == [k \in 1..N |-> Curve(N, t, k - 1)]
    IN  Append(body, body[1])

\* round(p / q): to the nearest integer, halves away from zero
round(p, q) ==
    LET pp == IF q < 0 THEN -p ELSE p
        qq == Abs(q)
    IN  IF pp >= 0 THEN (2 * pp + qq) \div (2 * qq) ELSE -((-2 * pp + qq) \div (2 * qq))

\* index(X) for the ray X / den; step = 4 / N
index(N, t, X, den) ==
    LET c == Dot(X, xBaseOf(t))
        ac == Abs(c)
        s == Dot(X, yBaseOf(t))
        as == Abs(s)
    IN  IF (ac + as) * EpsInv < den THEN 0
        ELSE IF ac > as THEN round((s + c) * N, 4 * c)
        ELSE round((s - c) * N, 4 * s) + N \div 2

Outside == [plane |-> "outside the table"]

\* getCurve(int idx)
getCurve(vec, idx) == IF idx + 1 \in 1..Len(vec) THEN vec[idx + 1] ELSE Outside

InitEpi ==
    /\ Fresh(1, 1, 1, 0, 0, createBuffer(1, 1, 1, 0), 0)
    /\ dist = DistIdle /\ kern = KernIdle /\ depth = DepthIdle
    /\ \E h \in 1..MaxHalfSteps, t \in EpiTranslations :
        epi = [on |-> TRUE, nSteps |-> 2 * h, t |-> t,
               epipolarVec |-> EnhancedEpipolar(2 * h, t),
               called |-> "none", bin |-> -1, X |-> ZeroVec, den |-> 1, idx |-> 0,
               curve |-> Outside]

\* getCurve(X) for some ray X
LookupRay ==
    /\ epi.on /\ epi.called = "none"
    /\ \E x \in (-MaxRay)..MaxRay, y \in (-MaxRay)..MaxRay, z \in (-MaxRay)..MaxRay,
          den \in RayDens :
        LET j == index(epi.nSteps, epi.t, <<x, y, z>>, den)
        IN  epi' = [epi EXCEPT !.called = "ray", !.bin = -1, !.X = <<x, y, z>>,
                               !.den = den, !.idx = j,
                               !.curve = getCurve(epi.epipolarVec, j)]
    /\ UNCHANGED <<dpVars, dist, kern, depth>>

\* getCurve(X) for the direction the constructor used for bin i, up to rounding
LookupDirection ==
    /\ epi.on /\ epi.called = "none"
    /\ \E i \in 0..(epi.nSteps - 1), e1 \in {-1, 0, 1}, e2 \in {-1, 0, 1} :
        LET X == VAdd(VScale(Direction(epi.nSteps, epi.t, i), PertScale),
                      VAdd(VScale(xBaseOf(epi.t), e1), VScale(yBaseOf(epi.t), e2)))
            den == PertScale * epi.nSteps
            j == index(epi.nSteps, epi.t, X, den)
        IN  epi' = [epi EXCEPT !.called = "direction", !.bin = i, !.X = X,
                               !.den = den, !.idx = j,
                               !.curve = getCurve(epi.epipolarVec, j)]
    /\ UNCHANGED <<dpVars, dist, kern, depth>>

NextEpi == LookupRay \/ LookupDirection

SpecEpi == InitEpi /\ [][NextEpi]_vars

\* ----------------------------------------------------------- cost kernels
\* The loop body of computeCurveCost and of computeCost for one pixel of the
\* working grid.  Pixels are <<x, y>>; an image maps <<row, column>> to a byte.
ImgSize == 3
MaxScale == 2
MaxKernDisp == 2
\* the clamp of the box-patch kernel
BoxMaxBias == 10
Greys == {0, 100, 255}
MaxBiasVals == {0, 10}
\* epipolar directions of the first image that are defined
PatchDirs == {[nan |-> FALSE, v |-> <<1, 0>>], [nan |-> FALSE, v |-> <<0, 1>>]}
\* normalized() of the zero vector; dir != dir holds of it alone
NaNDir == [nan |-> TRUE, v |-> <<0, 0>>]
\* the pixel step of the modelled rasterizers
RasterDirs == {<<1, 0>>, <<0, -1>>}
OffImage == <<-1, 0>>

ImgRange == 0..(ImgSize - 1)
\* 0 <= x < img.cols and 0 <= y < img.rows
InImage(img, x, y) == <<y, x>> \in DOMAIN img
\* an image of one grey with, possibly, one pixel of the opposite brightness
Image(grey, spike, at) ==
    [rc \in ImgRange \X ImgRange |->
        IF spike /\ rc = <<at[2], at[1]>> THEN (IF grey = 255 THEN 0 ELSE 255) ELSE grey]

Max2(a, b) == IF a >= b THEN a ELSE b
\* integer division of C++: truncation toward zero
TruncDiv(a, b) == IF a >= 0 THEN a \div b ELSE -((-a) \div b)

RECURSIVE SumTo(_, _, _)
\* f[lo] + ... + f[hi]
SumTo(f, lo, hi) == IF lo > hi THEN 0 ELSE f[lo] + SumTo(f, lo + 1, hi)

\* the rasterizer's pixel after k steps from its start (k < 0: stepped back)
RasterAt(start, sd, k) == <<start[1] + k * sd[1], start[2] + k * sd[2]>>

\* bilinear(img, x, y) at integer coordinates inside the image
bilinear(img, x, y) == img[<<y, x>>]

HalfLength(scale) == Max2(scale - 1, 1)

\* weightVec, indexed from 0
weightVec(scale) ==
    LET HL == HalfLength(scale)
        LENGTH == 2 * HL + 1
    IN  [i \in 0..(LENGTH - 1) |-> IF i = HL THEN HL + 1 ELSE IF i < HL THEN i + 1 ELSE LENGTH - i]

\* the pixels of image 1 the descriptor is sampled at
DescriptorAt(scale, pt, dir, i) ==
    <<pt[1] + (i - HalfLength(scale)) * dir.v[1], pt[2] + (i - HalfLength(scale)) * dir.v[2]>>

\* descriptor: img1 sampled at the LENGTH points pt + i * dir, indexed from 0
descriptor(img1, scale, pt, dir) ==
    [i \in 0..(2 * HalfLength(scale)) |->
        LET q == DescriptorAt(scale, pt, dir, i) IN bilinear(img1, q[1], q[2])]

\* sampleVec: img2 along the rasterizer's walk, begun HALF_LENGTH steps back
sampleVec(img2, scale, dispMax, start, sd) ==
    [i \in 0..(dispMax + 2 * HalfLength(scale) - 1) |->
        LET r == RasterAt(start, sd, i - HalfLength(scale))
        IN  IF ~InImage(img2, r[1], r[2]) THEN 0 ELSE img2[<<r[2], r[1]>>]]

\* the pixel of img2 computeCurveCost reads sampleVec[i] from: the rasterizer is
\* stepped back by HalfLength and then advanced once per sample
samplePixel(scale, start, sd, i) == RasterAt(start, sd, i - HalfLength(scale))

\* the pixel of img2 the rasterizer of computeDistance is at when triangulate
\* is called, after raster.steps(disparity)
stepsPixel(start, sd, disparity) == RasterAt(start, sd, disparity)

\* faulty variant: the bias is clamped to [0, m]
ClampPositive(x, m) == Min2(m, Max2(0, x))

Clamp(x, m) == Min2(m, Max2(-m, x))

\* computeCurveCost for the pixel at pt with epipolar direction dir (NaNDir when
\* undefined): the dispMax values acc / normalizer in the order they are stored
computeCurveCost(img1, img2, scale, dispMax, maxBias, pt, dir, start, sd) ==
    IF dir.nan THEN [d \in 1..dispMax |-> 0]
    ELSE
    LET HL == HalfLength(scale)
        LENGTH == 2 * HL + 1
        w == weightVec(scale)
        normalizer == SumTo(w, 0, LENGTH - 1)
        desc == descriptor(img1, scale, pt, dir)
        samples == sampleVec(img2, scale, dispMax, start, sd)
        sum1 == SumTo(desc, 0, LENGTH - 1)
        cost(d) ==
            LET sum2 == SumTo(samples, d, d + LENGTH - 1)
                bias == Clamp(TruncDiv(sum2 - sum1, LENGTH), maxBias)
                term == [i \in 0..(LENGTH - 1) |->
                            Abs(desc[i] - samples[d + i] + bias) * w[i]]
            IN  SumTo(term, 0, LENGTH - 1) \div normalizer
    IN  [d \in 1..dispMax |-> cost(d - 1)]

RECURSIVE ApplyWrites(_, _, _)
\* the writes ws[n..] applied in order to the flat buffer buf; a write outside
\* the buffer leaves it as it is
ApplyWrites(buf, ws, n) ==
    IF n > Len(ws) THEN buf
    ELSE ApplyWrites(IF ws[n].ok /\ ws[n].at \in DOMAIN buf
                     THEN [buf EXCEPT ![ws[n].at] = ws[n].val] ELSE buf, ws, n + 1)

\* the writes of computeCost to img2remap, in program order: the right end, then
\* the middle and the left.  img2remap(j, column) is cell j * width + column.
RemapWrites(img2, scale, dispMax, start, sd) ==
    LET hblock == scale \div 2
        width == scale + dispMax - 1
        centerShift2 == IF scale % 2 = 1 THEN 2 ELSE 1
        dstBase == dispMax + hblock
        uBase == round(2 * start[1] + centerShift2, 2)
        vBase0 == round(2 * start[2] - (scale - 1), 2)
        right == [n \in 1..(hblock * scale) |->
                    LET i == (n - 1) \div scale
                        j == (n - 1) % scale
                        u2 == uBase + i
                        v2 == vBase0 + j
                    IN  [ok |-> InImage(img2, u2, v2), src |-> <<u2, v2>>, j |-> j,
                         column |-> dstBase + i,
                         at |-> j * width + dstBase + i,
                         val |-> IF InImage(img2, u2, v2) THEN img2[<<v2, u2>>] ELSE 0]]
        left == [n \in 1..((dispMax + hblock) * scale) |->
                    LET k == (n - 1) \div scale
                        i == dispMax - 1 + hblock - k
                        j == (n - 1) % scale
                        r == RasterAt(start, sd, k)
                        u2 == round(2 * r[1] + centerShift2 - 2, 2)
                        v2 == round(2 * r[2] - (scale - 1), 2) + j
                    IN  [ok |-> InImage(img2, u2, v2), src |-> <<u2, v2>>, j |-> j,
                         column |-> i,
                         at |-> j * width + i,
                         val |-> IF InImage(img2, u2, v2) THEN img2[<<v2, u2>>] ELSE 0]]
    IN  right \o left

\* img2remap after both loops, as a flat buffer of scale rows of
\* scale + dispMax - 1 cells, 0 where nothing was written
img2remap(img2, scale, dispMax, start, sd) ==
    ApplyWrites([c \in 0..((scale + dispMax - 1) * scale - 1) |-> 0],
                RemapWrites(img2, scale, dispMax, start, sd), 1)

\* the patch of img1: img1(v1 + x2, u1 + x1) at n = x2 * scale + x1
patch1(img1, scale, pt) ==
    [n \in 0..(scale * scale - 1) |->
        img1[<<pt[2] - scale \div 2 + (n \div scale), pt[1] - scale \div 2 + (n % scale)>>]]

\* the window of the band for loop index i: img2remap(x2, i + x1) at n = x2 * scale + x1
patch2(band, scale, dispMax, i) ==
    [n \in 0..(scale * scale - 1) |->
        band[(n \div scale) * (scale + dispMax - 1) + i + (n % scale)]]

\* computeCost for the pixel at pt: the dispMax values acc / scaleSquared in the
\* order they are stored
computeCost(img1, img2, scale, dispMax, pt, start, sd) ==
    LET scaleSquared == scale * scale
        band == img2remap(img2, scale, dispMax, start, sd)
        p1 == patch1(img1, scale, pt)
        bias1 == SumTo(p1, 0, scaleSquared - 1)
        cost(i) ==
            LET p2 == patch2(band, scale, dispMax, i)
                bias == Clamp(TruncDiv(SumTo(p2, 0, scaleSquared - 1) - bias1, scaleSquared),
                              BoxMaxBias)
                term == [n \in 0..(scaleSquared - 1) |-> Abs(p1[n] - p2[n] + bias)]
            IN  SumTo(term, 0, scaleSquared - 1) \div scaleSquared
    IN  [d \in 1..dispMax |-> cost(dispMax - d)]

\* the byte a cost is stored as
Stored(raw) == [d \in DOMAIN raw |-> raw[d] % ByteRange]

\* the pixels of img2 that computeCurveCost reads through the rasterizer
CurveTouched(img2, scale, dispMax, start, sd) ==
    LET HL == HalfLength(scale)
        walk == {RasterAt(start, sd, i - HL) : i \in 0..(dispMax + 2 * HL - 1)}
    IN  {r \in walk : InImage(img2, r[1], r[2])}

\* the pixels of img2 that computeCost reads through the rasterizer
BoxTouched(img2, scale, dispMax, start, sd) ==
    LET ws == RemapWrites(img2, scale, dispMax, start, sd)
    IN  {ws[n].src : n \in {m \in 1..Len(ws) : ws[m].ok}}

MaxTrace == 2

\* traceEpipolarLine: the pixels of out it sets to 0 in count steps of the
\* rasterizer, and out afterwards; a write outside out leaves out as it is
traceEpipolarLine(out, start, sd, count) ==
    LET touched == UNION {LET r == RasterAt(start, sd, i)
                          IN  {r, <<r[1], r[2] + 1>>, <<r[1] + 1, r[2]>>, <<r[1] + 1, r[2] + 1>>}
                          : i \in 0..(count - 1)}
    IN  [touched |-> touched,
         out |-> [rc \in DOMAIN out |-> IF <<rc[2], rc[1]>> \in touched THEN 0 ELSE out[rc]]]

InitCost ==
    /\ Fresh(1, 1, 1, 0, 0, createBuffer(1, 1, 1, 0), 0)
    /\ dist = DistIdle /\ epi = EpiIdle /\ depth = DepthIdle
    /\ \E g1 \in Greys, g2 \in Greys, s1 \in BOOLEAN, s2 \in BOOLEAN,
          scale \in 1..MaxScale, dispMax \in 1..MaxKernDisp, maxBias \in MaxBiasVals,
          pt \in ImgRange \X ImgRange, dir \in PatchDirs \cup {NaNDir},
          sd \in RasterDirs, off \in BOOLEAN :
        LET start == IF off THEN OffImage ELSE pt
        IN  kern = [on |-> TRUE, called |-> "none",
                    img1 |-> Image(g1, s1, pt),
                    img2 |-> Image(g2, s2, IF off THEN <<0, 0>> ELSE pt),
                    scale |-> scale, dispMax |-> dispMax, maxBias |-> maxBias,
                    pt |-> pt, dir |-> dir, start |-> start, sd |-> sd,
                    raw |-> <<>>, out |-> <<>>, touched |-> {}]

\* the curve-patch kernel at a pixel whose descriptor lies inside image 1
CurveCostStep ==
    /\ kern.on /\ kern.called = "none"
    /\ ~kern.dir.nan =>
        \A i \in 0..(2 * HalfLength(kern.scale)) :
            LET q == DescriptorAt(kern.scale, kern.pt, kern.dir, i) IN InImage(kern.img1, q[1], q[2])
    /\ LET raw == computeCurveCost(kern.img1, kern.img2, kern.scale, kern.dispMax,
                                   kern.maxBias, kern.pt, kern.dir, kern.start, kern.sd)
       IN  kern' = [kern EXCEPT !.called = "computeCurveCost", !.raw = raw,
                                !.out = Stored(raw),
                                !.touched = IF kern.dir.nan THEN {}
                                            ELSE CurveTouched(kern.img2, kern.scale,
                                                     kern.dispMax, kern.start, kern.sd)]
    /\ UNCHANGED <<dpVars, dist, epi, depth>>

\* the box-patch kernel at a pixel whose patch lies inside image 1
BoxCostStep ==
    /\ kern.on /\ kern.called = "none"
    /\ LET hblock == kern.scale \div 2
       IN  /\ InImage(kern.img1, kern.pt[1] - hblock, kern.pt[2] - hblock)
           /\ InImage(kern.img1, kern.pt[1] - hblock + kern.scale - 1, kern.pt[2] - hblock + kern.scale - 1)
    /\ LET raw == computeCost(kern.img1, kern.img2, kern.scale, kern.dispMax,
                              kern.pt, kern.start, kern.sd)
       IN  kern' = [kern EXCEPT !.called = "computeCost", !.raw = raw, !.out = Stored(raw),
                                !.touched = BoxTouched(kern.img2, kern.scale, kern.dispMax,
                                                       kern.start, kern.sd)]
    /\ UNCHANGED <<dpVars, dist, epi, depth>>

\* traceEpipolarLine drawing on the second image
TraceStep ==
    /\ kern.on /\ kern.called = "none"
    /\ \E count \in 0..MaxTrace :
        LET r == traceEpipolarLine(kern.img2, kern.start, kern.sd, count)
        IN  kern' = [kern EXCEPT !.called = "traceEpipolarLine", !.img2 = r.out,
                                 !.touched = r.touched]
    /\ UNCHANGED <<dpVars, dist, epi, depth>>

NextCost == CurveCostStep \/ BoxCostStep \/ TraceStep

SpecCost == InitCost /\ [][NextCost]_vars

\* the kernels on striped images: every row of an image is the same pattern of
\* black and white pixels, the rasterizer walks along the row of the pixel
StripeLen == 5
MaxStripeScale == 3
StripeRange == 0..(StripeLen - 1)
Stripes(pattern) == [rc \in StripeRange \X StripeRange |-> pattern[rc[2]]]

InitStripes ==
    /\ Fresh(1, 1, 1, 0, 0, createBuffer(1, 1, 1, 0), 0)
    /\ dist = DistIdle /\ epi = EpiIdle /\ depth = DepthIdle
    /\ \E p1 \in [StripeRange -> {0, 255}], p2 \in [StripeRange -> {0, 255}],
          scale \in 1..MaxStripeScale, maxBias \in MaxBiasVals, x \in StripeRange :
        kern = [on |-> TRUE, called |-> "none",
                img1 |-> Stripes(p1), img2 |-> Stripes(p2),
                scale |-> scale, dispMax |-> 1, maxBias |-> maxBias,
                pt |-> <<x, StripeLen \div 2>>, dir |-> [nan |-> FALSE, v |-> <<1, 0>>],
                start |-> <<x, StripeLen \div 2>>, sd |-> <<1, 0>>,
                raw |-> <<>>, out |-> <<>>, touched |-> {}]

SpecStripes == InitStripes /\ [][NextCost]_vars

\* the kernels on a second image that is the first one brightened by c, with
\* the rasterizer walking along the row of the pixel
Offsets == {-11, -10, -3, 0, 3, 10, 11}
Brightened(img, c) == [rc \in DOMAIN img |-> Max2(0, Min2(ByteRange - 1, img[rc] + c))]

InitBias ==
    /\ Fresh(1, 1, 1, 0, 0, createBuffer(1, 1, 1, 0), 0)
    /\ dist = DistIdle /\ epi = EpiIdle /\ depth = DepthIdle
    /\ \E g \in Greys, s1 \in BOOLEAN, c \in Offsets, scale \in 1..MaxScale,
          dispMax \in 1..MaxKernDisp, maxBias \in MaxBiasVals \cup {3},
          pt \in ImgRange \X ImgRange, sd \in {<<1, 0>>, <<-1, 0>>} :
        kern = [on |-> TRUE, called |-> "none",
                img1 |-> Image(g, s1, pt),
                img2 |-> Brightened(Image(g, s1, pt), c),
                scale |-> scale, dispMax |-> dispMax, maxBias |-> maxBias,
                pt |-> pt, dir |-> [nan |-> FALSE, v |-> <<1, 0>>],
                start |-> pt, sd |-> sd,
                raw |-> <<>>, out |-> <<>>, touched |-> {}]

SpecBias == InitBias /\ [][NextCost]_vars

\* ----------------------------------------------------------- generatePlane
\* The loop body of generatePlane for one pixel.  The viewing ray is vec / den;
\* a distance is the fraction sqNum / sqDen of its square.
MaxPlaneCoord == 1
\* 1 / 1e-3, the threshold of z.dot(vec)
ZvecInv == 1000
PlaneDens == {1, 2 * ZvecInv}
\* TcameraPlane.trans()
PlaneTranslations == {<<0, 0, 2>>, <<0, 0, -1>>, <<1, 0, 1>>}
\* polygons in the frame of the plane: a square in both orientations, a triangle
Polygons == {<< <<-1, -1, 0>>, <<1, -1, 0>>, <<1, 1, 0>>, <<-1, 1, 0>> >>,
             << <<-1, 1, 0>>, <<1, 1, 0>>, <<1, -1, 0>>, <<-1, -1, 0>> >>,
             << <<0, 0, 0>>, <<1, 0, 0>>, <<0, 1, 0>> >>}

\* TcameraPlane.transform(polygonVec, polygonCamVec)
transform(R, t, poly) == [i \in 1..Len(poly) |-> VAdd(rotMat(R, poly[i]), t)]

\* normal of the face spanned by vertex i and the next vertex of the polygon
FaceNormal(pcv, i) == Cross(pcv[i], pcv[(i % Len(pcv)) + 1])

\* the flag inside after the loop over the vertices
InsideBySign(pcv, vec) == \A i \in 1..Len(pcv) : Dot(vec, FaceNormal(pcv, i)) >= 0

\* the value generatePlane leaves in the cell of a pixel whose reconstruction is
\* (ok, vec / den): 0 or the norm of vec * (t.z / z.vec)
generatePlane(ok, vec, den, R, t, poly) ==
    LET z == rotMat(R, <<0, 0, 1>>)
        zvec == Dot(z, vec)
        tz == Dot(t, z)
    IN  IF ~ok THEN Const(0)
        ELSE IF zvec * ZvecInv < den THEN Const(0)
        ELSE IF ~InsideBySign(transform(R, t, poly), vec) THEN Const(0)
        ELSE [sqNum |-> tz * tz * Dot(vec, vec), sqDen |-> zvec * zvec]

InitPlane ==
    /\ Fresh(1, 1, 1, 0, 0, createBuffer(1, 1, 1, 0), 0)
    /\ dist = DistIdle /\ epi = EpiIdle /\ kern = KernIdle
    /\ \E ok \in BOOLEAN, x \in (-MaxPlaneCoord)..MaxPlaneCoord,
          y \in (-MaxPlaneCoord)..MaxPlaneCoord, z \in (-MaxPlaneCoord)..MaxPlaneCoord,
          den \in PlaneDens, R \in Rotations, t \in PlaneTranslations, poly \in Polygons :
        depth = [on |-> TRUE, called |-> "none", ok |-> ok, vec |-> <<x, y, z>>,
                 den |-> den, R |-> R, t |-> t, poly |-> poly, out |-> Const(1)]

\* generatePlane(TcameraPlane, Mat32f &, polygonVec), one pixel
PlaneMatStep ==
    /\ depth.on /\ depth.called = "none"
    /\ depth' = [depth EXCEPT !.called = "Mat32f",
                    !.out = generatePlane(depth.ok, depth.vec, depth.den, depth.R,
                                          depth.t, depth.poly)]
    /\ UNCHANGED <<dpVars, dist, epi, kern>>

\* generatePlane(TcameraPlane, DepthMap &, polygonVec), one pixel
PlaneDepthStep ==
    /\ depth.on /\ depth.called = "none"
    /\ depth' = [depth EXCEPT !.called = "DepthMap",
                    !.out = generatePlane(depth.ok, depth.vec, depth.den, depth.R,
                                          depth.t, depth.poly)]
    /\ UNCHANGED <<dpVars, dist, epi, kern>>

NextPlane == PlaneMatStep \/ PlaneDepthStep

SpecPlane == InitPlane /\ [][NextPlane]_vars

\* ---------------------------------------------------------- distance grids
\* The DepthMap a match and generatePlane construct and fill.  The constructor
\* takes two sizes after the camera; sig tells which of them is the width.
MaxGrid == 3
Signatures == {"width, height", "height, width"}

\* DepthMap(camera, a, b, u0, v0, scale)
DepthMap(sig, a, b) ==
    IF sig = "width, height" THEN [width |-> a, height |-> b]
    ELSE [width |-> b, height |-> a]

InitGrid ==
    /\ \E w \in 1..MaxGrid, h \in 1..MaxGrid :
        Fresh(w, h, 1, 0, 0, createBuffer(w, h, 1, 0), 0)
    /\ dist = DistIdle /\ epi = EpiIdle /\ kern = KernIdle
    /\ \E sig \in Signatures :
        depth = [on |-> TRUE, called |-> "none", sig |-> sig, width |-> 0, height |-> 0,
                 k |-> 0, written |-> {}]

\* comuteStereo(img1, img2, DepthMap &): depth = DepthMap(&cam1, dispHeight, dispWidth, ..)
MatchGridStep ==
    /\ depth.on /\ depth.called = "none"
    /\ LET g == DepthMap(depth.sig, params.dispHeight, params.dispWidth)
       IN  depth' = [depth EXCEPT !.called = "comuteStereo", !.width = g.width,
                                  !.height = g.height]
    /\ UNCHANGED <<dpVars, dist, epi, kern>>

\* generatePlane(.., DepthMap &, ..): depthMap = DepthMap(&cam1, dispWidth, dispHeight, ..)
PlaneGridStep ==
    /\ depth.on /\ depth.called = "none"
    /\ LET g == DepthMap(depth.sig, params.dispWidth, params.dispHeight)
       IN  depth' = [depth EXCEPT !.called = "generatePlane", !.width = g.width,
                                  !.height = g.height]
    /\ UNCHANGED <<dpVars, dist, epi, kern>>

\* one pass of the loops over v and u: depth.at(u, v) = ..
GridWriteStep ==
    /\ depth.on /\ depth.called \in {"comuteStereo", "generatePlane"}
    /\ depth.k < NPix
    /\ depth' = [depth EXCEPT !.k = @ + 1,
                              !.written = @ \cup {<<depth.k % W, depth.k \div W>>}]
    /\ UNCHANGED <<dpVars, dist, epi, kern>>

NextGrid == MatchGridStep \/ PlaneGridStep \/ GridWriteStep

SpecGrid == InitGrid /\ [][NextGrid]_vars

\* ========================================================== properties
Slice(T, base) == [d \in 0..(D - 1) |-> T[base + d]]

\* the recurrence of the specification for entry d, boundary terms omitted
Recurrence(in, err, d) ==
    LET best == MinOver(in, 0, D - 1)
        a == in[d]
        b == IF d - 1 >= 0 THEN Min2(a, in[d - 1] + params.lambdaStep) ELSE a
        c == IF d + 1 < D THEN Min2(b, in[d + 1] + params.lambdaStep) ELSE b
    IN  err[d] + Min2(c, best + params.lambdaJump)

\* C1: every computeDynamicStep call, for every dispMax >= 1, leaves in outCost[d]
\* error[d] + min(inCost[d], inCost[d-1] + lambdaStep, inCost[d+1] + lambdaStep,
\* min inCost + lambdaJump) (missing neighbours omitted), and reads inCost and
\* writes outCost only at the offsets 0..dispMax-1
C1_StepRecurrence ==
    lastStep.dir # "none" =>
        LET T == tableau[lastStep.dir]
            in == Slice(T, lastStep.inB)
            err == Slice(errorBuffer, lastStep.outB)
        IN  /\ \A d \in 0..(D - 1) : T[lastStep.outB + d] = Recurrence(in, err, d)
            /\ lastStep.reads \subseteq {lastStep.inB + d : d \in 0..(D - 1)}
            /\ lastStep.writes \subseteq {lastStep.outB + d : d \in 0..(D - 1)}

IsSmallestMin(p, d) ==
    /\ d \in 0..(D - 1)
    /\ \A e \in 0..(D - 1) :
        /\ score(p, d) <= score(p, e)
        /\ e < d => score(p, e) > score(p, d)

\* C2: for every pixel the fusion has processed, the stored disparity is the
\* smallest d in [0, dispMax) that minimises the fused score
C2_FusionOptimal ==
    \A p \in fused : IsSmallestMin(p, smallDisparity[p])

\* C3: with the same cost volume and lambdaStep, no tableau entry computed with
\* the larger lambdaJump is below the entry computed with the smaller lambdaJump
C3_JumpMonotone ==
    (prev.valid /\ pc \in {"fuse", "done"}) =>
        \A dir \in Dirs : \A i \in DOMAIN tableau[dir] :
            tableau[dir][i] >= prev.tableau[dir][i]

\* C7: the fusion reads a pixel only when the cost volume is complete and all four
\* sweeps have written that pixel, and no sweep writes a pixel after the fusion read it
C7_Barrier ==
    /\ \A p \in fused :
        /\ filled["cost"] = 0..(NPix - 1)
        /\ \A dir \in Dirs : p \in filled[dir]
    /\ ~lateWrite

C7_Witness ==
    /\ pc = "done"
    /\ NPix >= 4
    /\ fused = 0..(NPix - 1)
    /\ \A dir \in Dirs : filled[dir] = 0..(NPix - 1)

RECURSIVE SeqSweep(_, _, _)
\* the tableau the sweep dir holds after its first k pixels, run on its own
SeqSweep(T, dir, k) ==
    IF k = 0 THEN T
    ELSE SweepApply(SeqSweep(T, dir, k - 1), errorBuffer, dir, k - 1, 0)

\* C8: a sweep reads its own tableau only in the slice of the previous pixel of its
\* scan, and after any interleaving of the four sweeps the tableaus are those of
\* the sweeps run one after the other
C8_SweepsIndependent ==
    /\ lastStep.dir # "none" =>
          lastStep.reads \subseteq {lastStep.inB + d : d \in 0..(D - 1)}
    /\ pc \in {"fuse", "done"} =>
          \A dir \in Dirs :
              tableau[dir] = SeqSweep(createBuffer(W, H, D, 0), dir, NPix)

\* C4: computeDistance returns the maxDistance sentinel, without stepping the
\* rasterizer or triangulating, when the stored disparity is <= 0; otherwise it
\* steps the rasterizer by the disparity, triangulates once and returns 0 when the
\* triangulation fails and the norm of the triangulated point when it succeeds
C4_DistanceOutcomes ==
    (dist.on /\ dist.called = "computeDistance") =>
        LET o == dist.out IN
        IF dist.disparity <= 0
        THEN o.ret = Const(dist.maxDistance) /\ o.steps = <<>> /\ o.tri = <<>>
        ELSE /\ o.steps = <<dist.disparity>>
             /\ o.tri = <<triangulate(dist.ok1, dist.v1, dist.ok2, dist.v2in, dist.R, dist.t)>>
             /\ IF o.tri[1].ret THEN o.ret = Norm(o.tri[1].X) ELSE o.ret = Const(0)

C4_Witness ==
    /\ dist.on /\ dist.called = "computeDistance"
    /\ dist.disparity > 0
    /\ dist.out.tri[1].ret
    /\ dist.out.ret # Const(0)
    /\ dist.out.ret # Const(dist.maxDistance)

\* the rays of a triangulate call are parallel or one of them is not reconstructed
TriangulationDegenerate ==
    \/ ~dist.ok1
    \/ ~dist.ok2
    \/ LET v2 == rotMat(dist.R, dist.v2in)
       IN  DeltaTooSmall(Dot(dist.v1, v2) * Dot(dist.v1, v2) - Dot(dist.v1, dist.v1) * Dot(v2, v2))

\* C5: triangulate returns false exactly when a camera fails to reconstruct its
\* pixel or the determinant is below the threshold, and then X is the zero vector;
\* otherwise it returns true and X is the midpoint of the points P1 = l1*v1 and
\* P2 = t + l2*v2 of the two rays whose difference is orthogonal to both rays
C5_Triangulate ==
    (dist.on /\ dist.called = "triangulate") =>
        LET o == dist.out
            v2 == rotMat(dist.R, dist.v2in)
            \* delta * P1, delta * P2
            P1 == VScale(dist.v1, o.l1)
            P2 == VAdd(VScale(dist.t, o.delta), VScale(v2, o.l2))
            gap == VAdd(P1, VScale(P2, -1))
        IN  /\ o.ret = ~TriangulationDegenerate
            /\ ~o.ret => dist.X = ZeroPoint
            /\ o.ret => /\ Dot(gap, dist.v1) = 0
                        /\ Dot(gap, v2) = 0
                        /\ dist.X.den = 2 * o.delta
                        /\ dist.X.num = VAdd(P1, P2)

C5_Witness ==
    /\ dist.on /\ dist.called = "triangulate"
    /\ dist.out.ret
    /\ dist.X.num # ZeroVec
    /\ dist.R = "Z90"

\* C9: the curve table built for an even step count N has exactly N + 1 entries,
\* and every lookup by ray returns an index in [0, N] and reads inside the table
C9_LookupInBounds ==
    epi.on =>
        /\ Len(epi.epipolarVec) = epi.nSteps + 1
        /\ epi.called # "none" =>
            /\ epi.idx \in 0..epi.nSteps
            /\ epi.idx + 1 \in DOMAIN epi.epipolarVec
            /\ epi.curve # Outside

C9_Witness ==
    /\ epi.on /\ epi.called = "ray"
    /\ epi.idx = epi.nSteps
    /\ epi.nSteps > 2
    /\ epi.curve = epi.epipolarVec[1]

\* C10: index applied to the direction used to build entry i returns a bin j
\* whose stored curve equals entry i, with j = i or j = N for the wrap entry
C10_IndexConsistent ==
    (epi.on /\ epi.called = "direction") =>
        /\ epi.curve = Curve(epi.nSteps, epi.t, epi.bin)
        /\ epi.curve = epi.epipolarVec[epi.bin + 1]
        /\ epi.idx = epi.bin \/ (epi.bin = 0 /\ epi.idx = epi.nSteps)

C10_Witness ==
    /\ epi.on /\ epi.called = "direction"
    /\ epi.bin = 0
    /\ epi.idx = epi.nSteps
    /\ epi.curve = epi.epipolarVec[1]

\* C6: under either cost kernel, a pixel whose epipolar direction is undefined
\* (NaN) gets cost 0 at every disparity, independent of the image contents
C6_UndefinedDirectionZero ==
    (kern.on /\ kern.called \in {"computeCurveCost", "computeCost"} /\ kern.dir.nan) =>
        \A d \in 1..kern.dispMax : kern.out[d] = 0

\* the ray of the pixel meets the plane at a positive multiple of vec, at a point
\* of the plane that lies inside the polygon
HitsPolygonInFront ==
    LET z == rotMat(depth.R, <<0, 0, 1>>)
        zvec == Dot(z, depth.vec)
        tz == Dot(depth.t, z)
        pcv == transform(depth.R, depth.t, depth.poly)
        \* zvec * (P - pcv[i]) for the intersection point P = vec * tz / zvec
        rel(i) == VAdd(VScale(depth.vec, tz), VScale(pcv[i], -zvec))
        edge(i) == VAdd(pcv[(i % Len(pcv)) + 1], VScale(pcv[i], -1))
        side(i) == Dot(Cross(edge(i), rel(i)), z) * zvec
    IN  /\ depth.ok
        /\ tz * zvec > 0
        /\ \/ \A i \in 1..Len(pcv) : side(i) >= 0
           \/ \A i \in 1..Len(pcv) : side(i) <= 0

\* C11: generatePlane writes 0 for a pixel whose ray is not reconstructed, has
\* z.vec < 1e-3 or fails the cross-product sign test, and the intersection
\* distance otherwise; a non-zero value is written only for a ray that hits the
\* plane in front of the camera inside the polygon
C11_PlaneDistance ==
    (depth.on /\ depth.called \in {"Mat32f", "DepthMap"}) =>
        LET z == rotMat(depth.R, <<0, 0, 1>>)
            zvec == Dot(z, depth.vec)
            tz == Dot(depth.t, z)
            zero == \/ ~depth.ok
                    \/ zvec * ZvecInv < depth.den
                    \/ ~InsideBySign(transform(depth.R, depth.t, depth.poly), depth.vec)
        IN  /\ zero => depth.out = Const(0)
            /\ ~zero => depth.out = [sqNum |-> tz * tz * Dot(depth.vec, depth.vec),
                                     sqDen |-> zvec * zvec]
            /\ depth.out.sqNum # 0 => HitsPolygonInFront

\* C12: the value a cost kernel computes for cost(d) before it is stored lies in
\* [0, 255], so the stored byte equals the computed cost
C12_CostIsByte ==
    (kern.on /\ kern.called \in {"computeCurveCost", "computeCost"}) =>
        \A d \in 1..kern.dispMax : kern.raw[d] \in 0..(ByteRange - 1) /\ kern.out[d] = kern.raw[d]

AllPixels == 0..(NPix - 1)

ScanStart(dir, j) ==
    CASE dir = "Left"   -> getLinearIndex(0, j)
      [] dir = "Right"  -> getLinearIndex(W - 1, j)
      [] dir = "Top"    -> getLinearIndex(j, 0)
      [] dir = "Bottom" -> getLinearIndex(j, H - 1)

ScanCount(dir) == IF dir \in {"Left", "Right"} THEN H ELSE W

\* C14: after computeDynamicProgramming the first element of every scan of every
\* tableau equals the raw cost, for every disparity
C14_ScanStartIsCost ==
    pc \in {"fuse", "done"} =>
        \A dir \in Dirs : \A j \in 0..(ScanCount(dir) - 1) : \A d \in 0..(D - 1) :
            tableau[dir][ScanStart(dir, j) * D + d] = errorBuffer[ScanStart(dir, j) * D + d]

C14_Witness ==
    /\ pc = "fuse"
    /\ W >= 2 /\ H >= 2 /\ D >= 2
    /\ \E d \in 0..(D - 1) : tableau["Bottom"][ScanStart("Bottom", 1) * D + d] = 255
    /\ \E i \in DOMAIN errorBuffer : tableau["Bottom"][i] # errorBuffer[i]

\* C15: computeCurveCost, computeCost and traceEpipolarLine read or write an
\* image at a position derived from the rasterizer only when the position lies
\* inside the image
C15_RasterBoundChecked ==
    (kern.on /\ kern.called # "none") =>
        \A q \in kern.touched : InImage(kern.img2, q[1], q[2])

\* the image-2 window of disparity d equals the descriptor plus c everywhere
CurveWindowOffset(d, c) ==
    LET desc == descriptor(kern.img1, kern.scale, kern.pt, kern.dir)
        samples == sampleVec(kern.img2, kern.scale, kern.dispMax, kern.start, kern.sd)
    IN  \A i \in DOMAIN desc : samples[d + i] = desc[i] + c

\* the remapped window of disparity d equals the patch of image 1 plus c everywhere
BoxWindowOffset(d, c) ==
    LET p1 == patch1(kern.img1, kern.scale, kern.pt)
        p2 == patch2(img2remap(kern.img2, kern.scale, kern.dispMax, kern.start, kern.sd),
                     kern.scale, kern.dispMax, kern.dispMax - 1 - d)
    IN  \A n \in DOMAIN p1 : p2[n] = p1[n] + c

\* C16: a window of image 2 that equals the descriptor (curve-patch kernel) or the
\* patch of image 1 (box-patch kernel) plus a constant c inside the clamp gets cost 0
C16_BiasCancelsOffset ==
    /\ (kern.on /\ kern.called = "computeCurveCost" /\ ~kern.dir.nan) =>
        \A d \in 0..(kern.dispMax - 1) : \A c \in (-kern.maxBias)..kern.maxBias :
            CurveWindowOffset(d, c) => kern.out[d + 1] = 0
    /\ (kern.on /\ kern.called = "computeCost") =>
        \A d \in 0..(kern.dispMax - 1) : \A c \in (-BoxMaxBias)..BoxMaxBias :
            BoxWindowOffset(d, c) => kern.out[d + 1] = 0

C16_Witness ==
    /\ kern.on /\ kern.called = "computeCost"
    /\ kern.scale = 2
    /\ BoxWindowOffset(0, -10)
    /\ \E n \in 0..3 : patch1(kern.img1, kern.scale, kern.pt)[n] = 255
    /\ kern.out[1] = 0

\* C17: every write img2remap(j, column) of computeCost has
\* 0 <= column < scale + dispMax - 1 and 0 <= j < scale
C17_RemapInBand ==
    (kern.on /\ kern.called = "computeCost") =>
        LET ws == RemapWrites(kern.img2, kern.scale, kern.dispMax, kern.start, kern.sd)
        IN  \A n \in 1..Len(ws) :
                ws[n].ok => /\ ws[n].column \in 0..(kern.scale + kern.dispMax - 2)
                            /\ ws[n].j \in 0..(kern.scale - 1)

\* C18: the distance grid of a match and the one of generatePlane have width
\* dispWidth and height dispHeight, and every cell at(u, v) written lies inside
C18_GridShape ==
    (depth.on /\ depth.called \in {"comuteStereo", "generatePlane"}) =>
        /\ depth.width = params.dispWidth
        /\ depth.height = params.dispHeight
        /\ \A q \in depth.written : q[1] \in 0..(depth.width - 1) /\ q[2] \in 0..(depth.height - 1)

\* the cells of the band that the middle-and-left loop of computeCost fills in
\* column column, with the pixel of img2 each was read from
LeftWrites(img2, scale, dispMax, start, sd, column) ==
    LET ws == RemapWrites(img2, scale, dispMax, start, sd)
        hblock == scale \div 2
    IN  {ws[n] : n \in {m \in (hblock * scale + 1)..Len(ws) : ws[m].column = column}}

\* C19: disparity index d means the same pixel of image 2 in the cost kernels
\* and in computeDistance.  Whenever the pixel the rasterizer reaches after d
\* steps from the infinite-depth pixel (the one computeDistance triangulates
\* after steps(d)) lies in image 2: the curve kernel reads element HalfLength of
\* the window shifted by d from that pixel, and the box kernel reads a cell of
\* band column dispMax - 1 - d + scale / 2, the column at offset scale / 2 of the
\* window of entry d, from that pixel (the cell of row scale / 2 when scale is
\* odd, and then the band holds the value of that pixel there).
C19_SameDisparityPixel ==
    /\ (kern.on /\ kern.called = "computeCurveCost" /\ ~kern.dir.nan) =>
            \A d \in 0..(kern.dispMax - 1) :
                LET r == stepsPixel(kern.start, kern.sd, d)
                    HL == HalfLength(kern.scale)
                IN  InImage(kern.img2, r[1], r[2]) =>
                        /\ samplePixel(kern.scale, kern.start, kern.sd, d + HL) = r
                        /\ sampleVec(kern.img2, kern.scale, kern.dispMax, kern.start,
                                     kern.sd)[d + HL] = kern.img2[<<r[2], r[1]>>]
    /\ (kern.on /\ kern.called = "computeCost") =>
            \A d \in 0..(kern.dispMax - 1) :
                LET r == stepsPixel(kern.start, kern.sd, d)
                    hblock == kern.scale \div 2
                    column == kern.dispMax - 1 - d + hblock
                    cells == LeftWrites(kern.img2, kern.scale, kern.dispMax, kern.start,
                                        kern.sd, column)
                    band == img2remap(kern.img2, kern.scale, kern.dispMax, kern.start,
                                      kern.sd)
                IN  InImage(kern.img2, r[1], r[2]) =>
                        /\ \E w \in cells : w.ok /\ w.src = r
                        /\ (kern.scale % 2 = 1) =>
                               /\ \E w \in cells : w.ok /\ w.src = r /\ w.j = hblock
                               /\ band[hblock * (kern.scale + kern.dispMax - 1) + column]
                                      = kern.img2[<<r[2], r[1]>>]

====
